---------------------------- MODULE Spec2Model ----------------------------
(***************************************************************************)
(* A model of the native core of the instrumentation library:              *)
(*   - the message bus    (src/src/core/message_bus.rs)                    *)
(*   - the task scheduler (src/src/core/scheduler.rs)                      *)
(* The two subsystems share no state; each has its own next-state relation *)
(* and specification (SpecBus, SpecSched) over the same variables.         *)
(***************************************************************************)
EXTENDS Integers, Sequences, FiniteSets, TLC

(***************************************************************************)
(* Bounds                                                                  *)
(***************************************************************************)
NumEvents == 2             \* event names
MaxClock == 1              \* the last value of the millisecond clock
MaxThreads == 2            \* loop threads that can exist at one time

Events == 1..NumEvents      \* event names (the String keys of the table)
Fns == {"L", "M"}           \* listener identities (Py<PyFunction> pointers)

Range(s) == {s[i] : i \in DOMAIN s}

RECURSIVE Reverse(_)
Reverse(s) == IF s = <<>> THEN <<>> ELSE Reverse(Tail(s)) \o <<Head(s)>>

NoDup(s) == \A i, j \in DOMAIN s : s[i] = s[j] => i = j

IsPrefix(p, s) == Len(p) <= Len(s) /\ p = SubSeq(s, 1, Len(p))

VARIABLES
    EVENT_LISTENERS,    \* HashMap<String, Vec<Py<PyFunction>>>: a function
                        \* whose DOMAIN is the set of keys present
    GLOBAL_LISTENERS,   \* Vec<Py<PyFunction>>
    evLock,             \* holder of the EVENT_LISTENERS mutex
    glLock,             \* holder of the GLOBAL_LISTENERS mutex
    disp,               \* the dispatch call in progress: its position, the
                        \* calls it has made, the lists it will return
    raises,             \* the listeners whose body raises when called
    registered          \* history: per event name the listeners in the
                        \* order their registration took effect

VARIABLES
    clock,              \* SystemTime::now() in milliseconds
    last_run,           \* TaskPy.last_run of each Task
    on_shutdown,        \* whether TaskPy.on_shutdown is Some
    tasks,              \* SchedulerPy.tasks: Vec<Py<TaskPy>>
    tasksLock,          \* holder of the tasks mutex: 0 free, Caller, or
                        \* the number of a loop thread
    poisoned,           \* the tasks mutex was held by a thread that panicked
    handle,             \* SchedulerPy.handle: 0 for None, else the thread
    is_running,         \* SchedulerPy.is_running
    gil,                \* holder of the GIL: 0 free, Caller, or the number
                        \* of a loop thread
    threads,            \* the loop threads spawned by start()
    caller,             \* the call into the scheduler in progress
    shutdownLog,        \* history: the tasks whose shutdown hook the last
                        \* stop() has invoked, in order
    dropped             \* the SchedulerPy object was deallocated

\* the _hub module (lib.rs)
VARIABLES
    HUB,                \* Hub.listeners: HashMap<String, Vec<Py<PyFunction>>>
    hubLock,            \* holder of the HUB mutex
    hdisp               \* the _hub dispatch in progress

busVars == <<EVENT_LISTENERS, GLOBAL_LISTENERS, evLock, glLock, disp,
             raises, registered>>

schedVars == <<clock, last_run, on_shutdown, tasks, tasksLock, poisoned,
               handle, is_running, gil, threads, caller, shutdownLog,
               dropped>>

hubVars == <<HUB, hubLock, hdisp>>

vars == <<EVENT_LISTENERS, GLOBAL_LISTENERS, evLock, glLock, disp,
          raises, registered, clock, last_run, on_shutdown, tasks,
          tasksLock, poisoned, handle, is_running, gil, threads, caller,
          shutdownLog, dropped, HUB, hubLock, hdisp>>

(***************************************************************************)
(* Message bus                                                             *)
(***************************************************************************)
\* PyNone::get(py): the marker appended for an absent result or error
none == [tag |-> "none", of |-> "-"]
\* what a listener returns (Ok(r)) and what it raises (Err(e))
RetVal(f) == [tag |-> "ret", of |-> f]
ErrVal(f) == [tag |-> "exc", of |-> f]

DispIdle == [pc |-> "idle", event |-> 0, coll |-> FALSE, idx |-> 0,
             calls |-> <<>>, results |-> <<>>, exceptions |-> <<>>,
             atStart |-> <<>>, status |-> "none"]

BusInit ==
    /\ EVENT_LISTENERS = <<>>
    /\ GLOBAL_LISTENERS = <<>>
    /\ evLock = "free"
    /\ glLock = "free"
    /\ disp = DispIdle
    /\ registered = [e \in Events |-> <<>>]

\* A registry call is made between dispatches, or by the code of a listener
\* body while a dispatch is iterating (the caller holds the GIL from the
\* entry of a #[pyfunction] to its return, so nothing runs in between).
InPython == disp.pc \in {"idle", "named", "global"}

has_key(table, event_id) == event_id \in DOMAIN table

\* message_bus.rs 16-19: Some(v) => Ok(!v.is_empty()), None => Ok(false)
has_listeners_result(table, event_id) ==
    IF event_id \in DOMAIN table THEN table[event_id] /= <<>> ELSE FALSE

\* message_bus.rs 15-20; the call reads the table under its lock and
\* changes nothing
has_listeners(event_id) ==
    /\ InPython
    /\ evLock = "free"
    /\ has_listeners_result(EVENT_LISTENERS, event_id) \in BOOLEAN
    /\ UNCHANGED busVars

insert_front_nodedup(l, callback) == <<callback>> \o l

insert_back(l, callback) ==
    IF callback \in Range(l) THEN l ELSE Append(l, callback)

\* message_bus.rs 27-29 and 42-44:
\* if !l.iter().any(|f| f.is(&callback)) { l.insert(0, callback); }
insert_front(l, callback) ==
    IF callback \in Range(l) THEN l ELSE <<callback>> \o l

\* history: a registration takes effect when the listener is not registered
Register(reg, f) == IF f \in Range(reg) THEN reg ELSE Append(reg, f)
Unregister(reg, f) == SelectSeq(reg, LAMBDA g : g /= f)

\* message_bus.rs 23-37
on(event_id, callback) ==
    /\ InPython
    /\ evLock = "free"
    /\ EVENT_LISTENERS' =
          IF event_id \in DOMAIN EVENT_LISTENERS
          THEN [EVENT_LISTENERS EXCEPT
                   ![event_id] = insert_front(@, callback)]
          ELSE (event_id :> <<callback>>) @@ EVENT_LISTENERS
    /\ registered' = [registered EXCEPT
                         ![event_id] = Register(@, callback)]
    /\ UNCHANGED <<GLOBAL_LISTENERS, evLock, glLock, disp, raises>>

\* message_bus.rs 40-47
on_all(callback) ==
    /\ InPython
    /\ glLock = "free"
    /\ GLOBAL_LISTENERS' = insert_front(GLOBAL_LISTENERS, callback)
    /\ UNCHANGED <<EVENT_LISTENERS, evLock, glLock, disp, raises,
                   registered>>

\* message_bus.rs 51: EVENT_LISTENERS.lock().unwrap().clear()
clear_table(table) == <<>>

\* message_bus.rs 50-55
reset ==
    /\ InPython
    /\ evLock = "free"
    /\ glLock = "free"
    /\ EVENT_LISTENERS' = clear_table(EVENT_LISTENERS)
    /\ GLOBAL_LISTENERS' = <<>>
    /\ registered' = [e \in Events |-> <<>>]
    /\ UNCHANGED <<evLock, glLock, disp, raises>>

retain_only(l, callback) == SelectSeq(l, LAMBDA f : f = callback)

\* message_bus.rs 60: l.retain(|f| !f.is(&callback))
retain_other(l, callback) == SelectSeq(l, LAMBDA f : f /= callback)

\* message_bus.rs 58-64
remove(event_id, callback) ==
    /\ InPython
    /\ evLock = "free"
    /\ EVENT_LISTENERS' =
          IF event_id \in DOMAIN EVENT_LISTENERS
          THEN [EVENT_LISTENERS EXCEPT
                   ![event_id] = retain_other(@, callback)]
          ELSE EVENT_LISTENERS
    /\ registered' = [registered EXCEPT
                         ![event_id] = Unregister(@, callback)]
    /\ UNCHANGED <<GLOBAL_LISTENERS, evLock, glLock, disp, raises>>

\* The entry of a dispatch: EVENT_LISTENERS.lock().unwrap().get(&event_id).
\* The guard is a temporary of the if-let, so the lock is held while the
\* named listeners run (message_bus.rs 68 and 92).
dispatch_enter(event_id, collecting) ==
    /\ disp.pc = "idle"
    /\ evLock = "free"
    /\ IF event_id \in DOMAIN EVENT_LISTENERS
       THEN /\ evLock' = "dispatch"
            /\ disp' = [DispIdle EXCEPT !.pc = "named", !.event = event_id,
                           !.coll = collecting, !.idx = 1,
                           !.atStart = registered[event_id]]
       ELSE /\ evLock' = evLock
            /\ disp' = [DispIdle EXCEPT !.pc = "global_lock",
                           !.event = event_id, !.coll = collecting,
                           !.atStart = registered[event_id]]
    /\ UNCHANGED <<EVENT_LISTENERS, GLOBAL_LISTENERS, glLock, raises,
                   registered>>

\* message_bus.rs 67-80
dispatch(event_id) == dispatch_enter(event_id, FALSE)

\* message_bus.rs 83-113
dispatch_with_results(event_id) == dispatch_enter(event_id, TRUE)

\* history of one listener invocation; arg is the event name a global
\* listener receives as the first element of (event_id, args), 0 for a
\* named listener, which receives args alone
Call(kind, f, raised, arg) ==
    [kind |-> kind, f |-> f, raised |-> raised, arg |-> arg]

collect_results_stop(d, f, raised) ==
    IF ~d.coll THEN d
    ELSE IF raised
         THEN [d EXCEPT !.results = Append(@, none),
                        !.exceptions = Append(@, ErrVal(f)),
                        !.idx = Len(EVENT_LISTENERS[d.event])]
         ELSE [d EXCEPT !.results = Append(@, RetVal(f)),
                        !.exceptions = Append(@, none)]

\* message_bus.rs 94-103: match f.call1(py, args) { Err(e) => { results
\* .append(none); exceptions.append(e) } Ok(r) => { results.append(r);
\* exceptions.append(none) } }; message_bus.rs 70 discards the result
collect_results(d, f, raised) ==
    IF ~d.coll THEN d
    ELSE IF raised
         THEN [d EXCEPT !.results = Append(@, none),
                        !.exceptions = Append(@, ErrVal(f))]
         ELSE [d EXCEPT !.results = Append(@, RetVal(f)),
                        !.exceptions = Append(@, none)]

\* one iteration of `for f in l` (message_bus.rs 69-71 and 93-104)
dispatch_named_call ==
    /\ disp.pc = "named"
    /\ disp.idx <= Len(EVENT_LISTENERS[disp.event])
    /\ LET f == EVENT_LISTENERS[disp.event][disp.idx]
           d == collect_results(disp, f, f \in raises)
       IN disp' = [d EXCEPT !.idx = @ + 1,
                      !.calls = Append(@, Call("named", f, f \in raises, 0))]
    /\ UNCHANGED <<EVENT_LISTENERS, GLOBAL_LISTENERS, evLock, glLock,
                   raises, registered>>

\* the end of the if-let block (message_bus.rs 72 and 105): the
\* EVENT_LISTENERS guard is dropped
dispatch_named_end ==
    /\ disp.pc = "named"
    /\ disp.idx > Len(EVENT_LISTENERS[disp.event])
    /\ evLock' = "free"
    /\ disp' = [disp EXCEPT !.pc = "global_lock", !.idx = 0]
    /\ UNCHANGED <<EVENT_LISTENERS, GLOBAL_LISTENERS, glLock, raises,
                   registered>>

\* message_bus.rs 74 and 107: let listeners = GLOBAL_LISTENERS.lock().unwrap()
dispatch_global_lock ==
    /\ disp.pc = "global_lock"
    /\ glLock = "free"
    /\ glLock' = "dispatch"
    /\ disp' = [disp EXCEPT !.pc = "global", !.idx = 1]
    /\ UNCHANGED <<EVENT_LISTENERS, GLOBAL_LISTENERS, evLock, raises,
                   registered>>

global_call_propagates(d, f, raised) ==
    IF raised
    THEN [d EXCEPT !.idx = Len(GLOBAL_LISTENERS) + 1, !.status = "Err",
                   !.calls = Append(@, Call("global", f, raised, d.event))]
    ELSE [d EXCEPT !.idx = @ + 1,
                   !.calls = Append(@, Call("global", f, raised, d.event))]

\* message_bus.rs 75-77 and 108-110: f.call1(py, (event_id.clone(), args));
\* the result is discarded
global_call(d, f, raised) ==
    [d EXCEPT !.idx = @ + 1,
              !.calls = Append(@, Call("global", f, raised, d.event))]

dispatch_global_call ==
    /\ disp.pc = "global"
    /\ disp.idx <= Len(GLOBAL_LISTENERS)
    /\ LET f == GLOBAL_LISTENERS[disp.idx]
       IN disp' = global_call(disp, f, f \in raises)
    /\ UNCHANGED <<EVENT_LISTENERS, GLOBAL_LISTENERS, evLock, glLock,
                   raises, registered>>

\* message_bus.rs 79 and 112: Ok(()) / Ok((results, exceptions)); the
\* GLOBAL_LISTENERS guard is dropped on return
dispatch_global_end ==
    /\ disp.pc = "global"
    /\ disp.idx > Len(GLOBAL_LISTENERS)
    /\ glLock' = "free"
    /\ disp' = [disp EXCEPT !.pc = "ret",
                   !.status = IF @ = "none" THEN "Ok" ELSE @]
    /\ UNCHANGED <<EVENT_LISTENERS, GLOBAL_LISTENERS, evLock, raises,
                   registered>>

\* the caller has the returned value; the call is over
dispatch_return ==
    /\ disp.pc = "ret"
    /\ disp' = DispIdle
    /\ UNCHANGED <<EVENT_LISTENERS, GLOBAL_LISTENERS, evLock, glLock,
                   raises, registered>>

\* The body of a named listener (message_bus.rs 70 and 94, run with the
\* EVENT_LISTENERS guard of line 68 or 92 alive) makes a call that starts
\* with EVENT_LISTENERS.lock(): has_listeners (16), on (24), reset (51),
\* remove (59), dispatch (68) or dispatch_with_results (92). When the body
\* itself makes the call (who = "self") the thread locks a std Mutex it
\* holds, which never returns: it blocks for ever, or it panics and the
\* body goes on with a PanicException and the table unchanged. When the
\* body has handed the GIL to another thread and that thread makes the
\* call (who = "other"), that thread waits for the mutex with the GIL, and
\* the dispatching thread waits for the GIL.
nested_call_named(who, outcome) ==
    /\ disp.pc = "named"
    /\ disp.idx <= Len(EVENT_LISTENERS[disp.event])
    /\ evLock = "dispatch"
    /\ disp' = IF who = "other" THEN [disp EXCEPT !.pc = "gil_wait"]
               ELSE IF outcome = "blocks" THEN [disp EXCEPT !.pc = "relock"]
               ELSE disp
    /\ UNCHANGED <<EVENT_LISTENERS, GLOBAL_LISTENERS, evLock, glLock,
                   raises, registered>>

\* The same from the body of a global listener (message_bus.rs 76 and 109,
\* run with the GLOBAL_LISTENERS guard of line 74 or 107 alive) for the
\* calls that lock GLOBAL_LISTENERS: on_all (41), and reset (52), which has
\* cleared EVENT_LISTENERS (51) before.
nested_call_global(who, outcome, op) ==
    /\ disp.pc = "global"
    /\ disp.idx <= Len(GLOBAL_LISTENERS)
    /\ glLock = "dispatch"
    /\ evLock = "free"
    /\ disp' = IF who = "other" THEN [disp EXCEPT !.pc = "gil_wait"]
               ELSE IF outcome = "blocks" THEN [disp EXCEPT !.pc = "relock"]
               ELSE disp
    /\ IF op = "reset"
       THEN /\ EVENT_LISTENERS' = clear_table(EVENT_LISTENERS)
            /\ registered' = [e \in Events |-> <<>>]
       ELSE UNCHANGED <<EVENT_LISTENERS, registered>>
    /\ UNCHANGED <<GLOBAL_LISTENERS, evLock, glLock, raises>>

\* the steps by which a dispatch in progress goes on
DispatchStep ==
    \/ dispatch_named_call
    \/ dispatch_named_end
    \/ dispatch_global_lock
    \/ dispatch_global_call
    \/ dispatch_global_end
    \/ dispatch_return

(***************************************************************************)
(* The _hub module (lib.rs): a second registry with one table behind one   *)
(* mutex and a dispatch that returns the first error                       *)
(***************************************************************************)
\* longest listener list the hub is driven to
MaxLen == 2

HubIdle == [pc |-> "idle", event |-> 0, idx |-> 0, calls |-> <<>>,
            status |-> "none"]

\* lib.rs 11-15: HUB starts with an empty map
HubInit ==
    /\ HUB = <<>>
    /\ hubLock = "free"
    /\ hdisp = HubIdle

\* lib.rs 20-21: Some(v) => Ok(!v.is_empty()), None => Ok(false)
hub_has_listeners_result(table, event_id) ==
    IF event_id \in DOMAIN table THEN table[event_id] /= <<>> ELSE FALSE

\* lib.rs 17-23
hub_has_listeners(event_id) ==
    /\ hdisp.pc = "idle"
    /\ hubLock = "free"
    /\ hub_has_listeners_result(HUB, event_id) \in BOOLEAN
    /\ UNCHANGED hubVars

\* lib.rs 31: v.insert(0, c), whatever v holds
hub_insert(v, c) == <<c>> \o v

\* lib.rs 25-38
hub_on(event_id, callback) ==
    /\ hdisp.pc = "idle"
    /\ hubLock = "free"
    /\ event_id \in DOMAIN HUB => Len(HUB[event_id]) < MaxLen
    /\ HUB' = IF event_id \in DOMAIN HUB
                THEN [HUB EXCEPT ![event_id] = hub_insert(@, callback)]
                ELSE (event_id :> <<callback>>) @@ HUB
    /\ UNCHANGED <<hubLock, hdisp>>

\* lib.rs 40-44
reset_listeners ==
    /\ hdisp.pc = "idle"
    /\ hubLock = "free"
    /\ HUB' = <<>>
    /\ UNCHANGED <<hubLock, hdisp>>

\* lib.rs 53-54, 58-60: the guard h is taken for the whole call; an event
\* without an entry returns the empty tuple
hub_dispatch(event_id) ==
    /\ hdisp.pc = "idle"
    /\ hubLock = "free"
    /\ hubLock' = "dispatch"
    /\ hdisp' = IF event_id \in DOMAIN HUB
                  THEN [HubIdle EXCEPT !.pc = "named", !.event = event_id,
                                       !.idx = 1]
                  ELSE [HubIdle EXCEPT !.pc = "ret", !.event = event_id,
                                       !.status = "Ok"]
    /\ UNCHANGED HUB

\* lib.rs 55-57: f.call1(..)? returns the listener's error from dispatch
hub_dispatch_call ==
    /\ hdisp.pc = "named"
    /\ hdisp.idx <= Len(HUB[hdisp.event])
    /\ LET f == HUB[hdisp.event][hdisp.idx]
       IN  hdisp' = IF f \in raises
                      THEN [hdisp EXCEPT !.calls = Append(@, f),
                                         !.status = "Err", !.pc = "ret"]
                      ELSE [hdisp EXCEPT !.calls = Append(@, f),
                                         !.idx = @ + 1]
    /\ UNCHANGED <<HUB, hubLock>>

\* lib.rs 57, 62: the loop is over, Ok(PyTuple::empty(py))
hub_dispatch_end ==
    /\ hdisp.pc = "named"
    /\ hdisp.idx > Len(HUB[hdisp.event])
    /\ hdisp' = [hdisp EXCEPT !.status = "Ok", !.pc = "ret"]
    /\ UNCHANGED <<HUB, hubLock>>

\* lib.rs 63: the call returns and the guard h is dropped
hub_dispatch_return ==
    /\ hdisp.pc = "ret"
    /\ hdisp' = HubIdle
    /\ hubLock' = "free"
    /\ UNCHANGED HUB

(***************************************************************************)
(* Properties of the _hub module                                           *)
(***************************************************************************)
\* the listeners of the event being dispatched by the hub
HubList == IF hdisp.event \in DOMAIN HUB THEN HUB[hdisp.event] ELSE <<>>

\* the hub dispatch is returning the error of the k-th listener
RaisedAt(k) ==
    /\ k \in 1..Len(HubList)
    /\ HubList[k] \in raises
    /\ \A j \in 1..(k - 1) : HubList[j] \notin raises

\* C16: when a listener raises, the hub dispatch returns the error, the
\* listeners after it are not called, and the global listeners are called
\* afterward.
C16_RaiseThenGlobals ==
    hdisp.pc = "ret" /\ hdisp.status = "Err" =>
        \E k \in 1..Len(HubList) :
            /\ RaisedAt(k)
            /\ hdisp.calls = SubSeq(HubList, 1, k) \o GLOBAL_LISTENERS

\* a hub dispatch returns an error, skipping a listener, while a global
\* listener is registered
C16_Witness ==
    /\ hdisp.pc = "ret"
    /\ hdisp.status = "Err"
    /\ Len(hdisp.calls) < Len(HubList)
    /\ GLOBAL_LISTENERS /= <<>>

\* the part of C16 the hub does keep: the error is returned at the first
\* raising listener and no listener after it is called
C16_ShortCircuitPart ==
    /\ hdisp.pc = "ret" /\ hdisp.status = "Err" =>
          \E k \in 1..Len(HubList) :
              RaisedAt(k) /\ hdisp.calls = SubSeq(HubList, 1, k)
    /\ hdisp.pc = "ret" /\ hdisp.status = "Ok" =>
          hdisp.calls = HubList /\ \A f \in Range(HubList) : f \notin raises

\* C17: after any sequence of on and reset_listeners, no listener list of
\* the hub holds one identity twice.
C17_HubOnIdempotent == \A e \in DOMAIN HUB : NoDup(HUB[e])

\* on was called twice with the same event and the same listener
C17_Witness == \E e \in DOMAIN HUB : \E f \in Fns : HUB[e] = <<f, f>>

NextHub ==
    \/ \E e \in Events : hub_has_listeners(e) /\ UNCHANGED <<busVars, schedVars>>
    \/ \E e \in Events, f \in Fns :
          hub_on(e, f) /\ UNCHANGED <<busVars, schedVars>>
    \/ reset_listeners /\ UNCHANGED <<busVars, schedVars>>
    \/ \E e \in Events : hub_dispatch(e) /\ UNCHANGED <<busVars, schedVars>>
    \/ hub_dispatch_call /\ UNCHANGED <<busVars, schedVars>>
    \/ hub_dispatch_end /\ UNCHANGED <<busVars, schedVars>>
    \/ hub_dispatch_return /\ UNCHANGED <<busVars, schedVars>>
    \/ \E f \in Fns : on_all(f) /\ UNCHANGED <<schedVars, hubVars>>

(***************************************************************************)
(* Properties of the message bus                                           *)
(***************************************************************************)
NamedCalls == SelectSeq(disp.calls, LAMBDA c : c.kind = "named")
GlobalCalls == SelectSeq(disp.calls, LAMBDA c : c.kind = "global")
CalledFns(cs) == [i \in 1..Len(cs) |-> cs[i].f]
Times(f, s) == Cardinality({i \in DOMAIN s : s[i] = f})
NamedDone == disp.pc \in {"global_lock", "global", "ret"}
\* the listeners now in the list of an event name
ListOf(table, e) == IF e \in DOMAIN table THEN Range(table[e]) ELSE {}

\* C3: no listener identity is twice in the list of an event name nor twice
\* in the global list; one dispatch invokes each listener registered under
\* the event name exactly once, and each global listener exactly once.
C3_NoDuplicateListener ==
    /\ \A e \in DOMAIN EVENT_LISTENERS : NoDup(EVENT_LISTENERS[e])
    /\ NoDup(GLOBAL_LISTENERS)
    /\ \A f \in Fns : Times(f, CalledFns(NamedCalls)) <= 1
    /\ \A f \in Fns : Times(f, CalledFns(GlobalCalls)) <= 1
    /\ NamedDone =>
          \A f \in Range(disp.atStart) : Times(f, CalledFns(NamedCalls)) = 1
    /\ disp.pc = "ret" =>
          \A f \in Range(GLOBAL_LISTENERS) :
              Times(f, CalledFns(GlobalCalls)) = 1

\* a dispatch has returned with both listeners registered under the event
\* name and globally, each invoked once in each role
C3_Witness ==
    /\ disp.pc = "ret"
    /\ Range(disp.atStart) = Fns
    /\ Range(GLOBAL_LISTENERS) = Fns
    /\ Len(disp.calls) = 2 * Cardinality(Fns)

\* C4: the listeners of the event name are invoked most recently registered
\* first, and every named listener before any global listener.
C4_MostRecentFirst ==
    /\ disp.pc = "named" =>
          IsPrefix(CalledFns(NamedCalls), Reverse(disp.atStart))
    /\ NamedDone => CalledFns(NamedCalls) = Reverse(disp.atStart)
    /\ \A i, j \in DOMAIN disp.calls :
          (i < j /\ disp.calls[i].kind = "global")
             => disp.calls[j].kind = "global"

\* on(e, L) then on(e, M), then a dispatch of e that invoked M, then L, then
\* a global listener
C4_Witness ==
    /\ disp.pc = "ret"
    /\ disp.atStart = <<"L", "M">>
    /\ CalledFns(NamedCalls) = <<"M", "L">>
    /\ GlobalCalls /= <<>>

C5_Inv ==
    /\ \A i \in DOMAIN disp.calls :
          disp.calls[i].kind = "named"
             => disp.calls[i].f \in Range(disp.atStart)
    /\ \A e \in Events :
          Range(registered[e]) = ListOf(EVENT_LISTENERS, e)

C5_RemoveStep(e, f) ==
    /\ f \notin ListOf(EVENT_LISTENERS', e)
    /\ GLOBAL_LISTENERS' = GLOBAL_LISTENERS
    /\ DOMAIN EVENT_LISTENERS' = DOMAIN EVENT_LISTENERS
    /\ \A e2 \in DOMAIN EVENT_LISTENERS :
          e2 /= e => EVENT_LISTENERS'[e2] = EVENT_LISTENERS[e2]
    /\ f \notin ListOf(EVENT_LISTENERS, e)
          => EVENT_LISTENERS' = EVENT_LISTENERS

\* C5: a dispatch invokes as named listeners only listeners registered under
\* the event name when it started; remove(e, L) leaves L out of the list of
\* e, and only on(e, L) puts it back; remove changes neither the list of
\* another event name nor the global list, and changes nothing when L is not
\* registered under e.
C5_RemovedNotInvoked ==
    /\ []C5_Inv
    /\ [][\A e \in Events, f \in Fns :
             /\ remove(e, f) => C5_RemoveStep(e, f)
             /\ (/\ f \notin ListOf(EVENT_LISTENERS, e)
                 /\ f \in ListOf(EVENT_LISTENERS', e)) => on(e, f)]_vars

\* the only listener of an event name was removed (the key is left with an
\* empty list) and a dispatch of that name has finished its named listeners
\* without invoking any
C5_Witness ==
    /\ disp.pc = "global_lock"
    /\ disp.event \in DOMAIN EVENT_LISTENERS
    /\ EVENT_LISTENERS[disp.event] = <<>>
    /\ disp.calls = <<>>
    /\ \E e \in DOMAIN EVENT_LISTENERS : EVENT_LISTENERS[e] /= <<>>

\* C6: has_listeners(e) is true exactly when a listener is registered under
\* e; after reset it is false for every name and the global list is empty.
C6_HasListenersIff ==
    /\ [](\A e \in Events :
             has_listeners_result(EVENT_LISTENERS, e)
                <=> registered[e] /= <<>>)
    /\ [][reset =>
             /\ \A e \in Events : ~has_listeners_result(EVENT_LISTENERS', e)
             /\ GLOBAL_LISTENERS' = <<>>]_vars

\* an event name whose last listener was removed, reporting false, beside
\* one that reports true
C6_Witness ==
    \E e1, e2 \in DOMAIN EVENT_LISTENERS :
        /\ EVENT_LISTENERS[e1] = <<>>
        /\ ~has_listeners_result(EVENT_LISTENERS, e1)
        /\ has_listeners_result(EVENT_LISTENERS, e2)

\* C7: the two lists of dispatch_with_results have one entry per listener
\* invoked, in invocation order: (none, error) for a listener that raised,
\* (value, none) otherwise; once the named listeners are done the lists are
\* as long as the list of the event name, whoever raised.
C7_ResultsWellFormed ==
    disp.coll =>
       /\ Len(disp.results) = Len(NamedCalls)
       /\ Len(disp.exceptions) = Len(NamedCalls)
       /\ \A k \in DOMAIN NamedCalls :
             LET c == NamedCalls[k]
             IN IF c.raised
                THEN /\ disp.results[k] = none
                     /\ disp.exceptions[k] = ErrVal(c.f)
                ELSE /\ disp.results[k] = RetVal(c.f)
                     /\ disp.exceptions[k] = none
       /\ NamedDone =>
             /\ Len(disp.results) = Len(disp.atStart)
             /\ CalledFns(NamedCalls) = Reverse(disp.atStart)

\* a collecting dispatch has returned two entries: the first listener raised
\* and the second was still invoked and returned
C7_Witness ==
    /\ disp.pc = "ret"
    /\ disp.coll
    /\ Len(disp.results) = 2
    /\ disp.results[1] = none /\ disp.exceptions[1] /= none
    /\ disp.results[2] /= none /\ disp.exceptions[2] = none

\* C8: when a dispatch of either kind returns, every global listener has
\* been invoked exactly once, in list order, with the event name, and the
\* call returns Ok.
C8_GlobalsAlwaysRun ==
    /\ disp.pc = "global" =>
          IsPrefix(CalledFns(GlobalCalls), GLOBAL_LISTENERS)
    /\ disp.pc = "ret" =>
          /\ CalledFns(GlobalCalls) = GLOBAL_LISTENERS
          /\ disp.status = "Ok"
    /\ \A i \in DOMAIN GlobalCalls : GlobalCalls[i].arg = disp.event

\* a fire-and-forget dispatch has returned: a named listener raised, the
\* first global listener raised, and the second global listener still ran
C8_Witness ==
    /\ disp.pc = "ret"
    /\ ~disp.coll
    /\ \E i \in DOMAIN NamedCalls : NamedCalls[i].raised
    /\ Len(GlobalCalls) = 2
    /\ GlobalCalls[1].raised

\* ... and the same with no listener list under the event name
C8_WitnessNoKey ==
    /\ disp.pc = "ret"
    /\ disp.event \notin DOMAIN EVENT_LISTENERS
    /\ NamedCalls = <<>>
    /\ Len(GlobalCalls) = 2

\* C12: a dispatch in progress can always go on, whatever call a listener
\* body or another thread has made meanwhile: no call made during a
\* dispatch leaves the dispatching thread waiting for ever.
C12_NestedCallCompletes ==
    disp.pc /= "idle" => ENABLED DispatchStep

\* the body of a named listener has called a function of the bus that locks
\* EVENT_LISTENERS, and the thread waits for the mutex it holds
C12_Witness ==
    /\ disp.pc = "relock"
    /\ evLock = "dispatch"
    /\ disp.idx <= Len(EVENT_LISTENERS[disp.event])

\* ... and another thread has made the call: it waits for the mutex with the
\* GIL, the dispatching thread waits for the GIL
C12_WitnessOtherThread ==
    /\ disp.pc = "gil_wait"
    /\ evLock = "dispatch"

NextBus ==
    \/ \E e \in Events : has_listeners(e) /\ UNCHANGED <<schedVars, hubVars>>
    \/ \E e \in Events, f \in Fns : on(e, f) /\ UNCHANGED <<schedVars, hubVars>>
    \/ \E f \in Fns : on_all(f) /\ UNCHANGED <<schedVars, hubVars>>
    \/ reset /\ UNCHANGED <<schedVars, hubVars>>
    \/ \E e \in Events, f \in Fns : remove(e, f) /\ UNCHANGED <<schedVars, hubVars>>
    \/ \E e \in Events : dispatch(e) /\ UNCHANGED <<schedVars, hubVars>>
    \/ \E e \in Events : dispatch_with_results(e) /\ UNCHANGED <<schedVars, hubVars>>
    \/ dispatch_named_call /\ UNCHANGED <<schedVars, hubVars>>
    \/ dispatch_named_end /\ UNCHANGED <<schedVars, hubVars>>
    \/ dispatch_global_lock /\ UNCHANGED <<schedVars, hubVars>>
    \/ dispatch_global_call /\ UNCHANGED <<schedVars, hubVars>>
    \/ \E who \in {"self", "other"}, outcome \in {"blocks", "panics"} :
          nested_call_named(who, outcome) /\ UNCHANGED <<schedVars, hubVars>>
    \/ \E who \in {"self", "other"}, outcome \in {"blocks", "panics"},
          op \in {"on_all", "reset"} :
          nested_call_global(who, outcome, op) /\ UNCHANGED <<schedVars, hubVars>>
    \/ dispatch_global_end /\ UNCHANGED <<schedVars, hubVars>>
    \/ dispatch_return /\ UNCHANGED <<schedVars, hubVars>>

(***************************************************************************)
(* Task scheduler                                                          *)
(***************************************************************************)
TaskIds == {1, 2}            \* Task objects (Py<TaskPy> pointers)
ThreadIds == 1..MaxThreads   \* loop threads; an id is free again after a join
Caller == MaxThreads + 1     \* the host thread that calls into the scheduler

\* TaskPy.interval, an f32 of seconds, in units of half a millisecond
interval(t) == (t - 1) % 2
\* scheduler.rs 50: (self.interval * 1000.0).round() as u128
interval_ms(t) == (interval(t) + 1) \div 2

ThreadNone == [pc |-> "none", now |-> 0, idx |-> 0]
CallerIdle == [pc |-> "idle", op |-> "none", task |-> 0, idx |-> 0,
               join |-> 0, early |-> FALSE, result |-> "none"]

Spawned == {i \in ThreadIds : threads[i].pc /= "none"}
\* a loop thread that has returned from its closure, or has unwound
Gone(i) == threads[i].pc \in {"exited", "panicked"}
Live == {i \in Spawned : ~Gone(i)}
\* the ids start() can give to a new thread: never used, or of a thread that
\* has ended and that no handle names
Free == {i \in ThreadIds : /\ threads[i].pc = "none" \/ Gone(i)
                           /\ handle /= i
                           /\ caller.join /= i}
FirstFree == IF Free = {} THEN 0
             ELSE CHOOSE i \in Free : \A j \in Free : i <= j

\* scheduler.rs 80-85: SchedulerPy::new; auto_start is a start() right after.
\* The Task objects of Python exist, constructed at time 0 without a hook.
SchedInit ==
    /\ clock = 0
    /\ last_run = [t \in TaskIds |-> 0]
    /\ on_shutdown = [t \in TaskIds |-> FALSE]
    /\ tasks = <<>>
    /\ tasksLock = 0
    /\ poisoned = FALSE
    /\ handle = 0
    /\ is_running = FALSE
    /\ gil = 0
    /\ threads = [i \in ThreadIds |-> ThreadNone]
    /\ caller = CallerIdle
    /\ shutdownLog = <<>>
    /\ dropped = FALSE

\* scheduler.rs 8-13: time passes
Tick ==
    /\ clock < MaxClock
    /\ clock' = clock + 1
    /\ UNCHANGED <<last_run, on_shutdown, tasks, tasksLock, poisoned, handle,
                   is_running, gil, threads, caller, shutdownLog, dropped>>

\* A call from Python starts when the host thread holds the GIL and is in no
\* other call; it keeps the GIL until it returns.
CanCall == caller.pc = "idle" /\ gil = 0

\* scheduler.rs 27-45: Task(interval, target, name, on_shutdown). The new
\* object takes the id of a Task that is not registered; last_run is the
\* time of the construction.
TaskNew(t, hook) ==
    /\ CanCall
    /\ t \notin Range(tasks)
    /\ last_run' = [last_run EXCEPT ![t] = clock]
    /\ on_shutdown' = [on_shutdown EXCEPT ![t] = hook]
    /\ UNCHANGED <<clock, tasks, tasksLock, poisoned, handle, is_running,
                   gil, threads, caller, shutdownLog, dropped>>

\* scheduler.rs 93: register_task is entered
register_task(t) ==
    /\ CanCall /\ ~dropped
    /\ gil' = Caller
    /\ caller' = [CallerIdle EXCEPT !.pc = "reg_find",
                     !.op = "register_task", !.task = t]
    /\ UNCHANGED <<clock, last_run, on_shutdown, tasks, tasksLock, poisoned,
                   handle, is_running, threads, shutdownLog, dropped>>

\* scheduler.rs 115-125: schedule constructs the Task and registers it
schedule(t, hook) ==
    /\ CanCall /\ ~dropped
    /\ t \notin Range(tasks)
    /\ last_run' = [last_run EXCEPT ![t] = clock]
    /\ on_shutdown' = [on_shutdown EXCEPT ![t] = hook]
    /\ gil' = Caller
    /\ caller' = [CallerIdle EXCEPT !.pc = "reg_find", !.op = "schedule",
                     !.task = t]
    /\ UNCHANGED <<clock, tasks, tasksLock, poisoned, handle, is_running,
                   threads, shutdownLog, dropped>>

\* scheduler.rs 94-101: the first lock of the tasks mutex, held for the
\* search only; unwrap() panics when the mutex is poisoned
register_find ==
    /\ caller.pc = "reg_find"
    /\ tasksLock = 0
    /\ caller' = IF poisoned
                 THEN [caller EXCEPT !.pc = "ret", !.result = "panic"]
                 ELSE IF caller.task \in Range(tasks)
                 THEN [caller EXCEPT !.pc = "ret", !.result = "Ok",
                                     !.early = TRUE]
                 ELSE [caller EXCEPT !.pc = "reg_push"]
    /\ UNCHANGED <<clock, last_run, on_shutdown, tasks, tasksLock, poisoned,
                   handle, is_running, gil, threads, shutdownLog, dropped>>

\* scheduler.rs 102: the second lock, and the push
register_push ==
    /\ caller.pc = "reg_push"
    /\ tasksLock = 0
    /\ IF poisoned
       THEN /\ caller' = [caller EXCEPT !.pc = "ret", !.result = "panic"]
            /\ tasks' = tasks
       ELSE /\ caller' = [caller EXCEPT !.pc = "ret", !.result = "Ok"]
            /\ tasks' = Append(tasks, caller.task)
    /\ UNCHANGED <<clock, last_run, on_shutdown, tasksLock, poisoned, handle,
                   is_running, gil, threads, shutdownLog, dropped>>

\* scheduler.rs 107: unregister_task is entered
unregister_task(t) ==
    /\ CanCall /\ ~dropped
    /\ gil' = Caller
    /\ caller' = [CallerIdle EXCEPT !.pc = "unreg",
                     !.op = "unregister_task", !.task = t]
    /\ UNCHANGED <<clock, last_run, on_shutdown, tasks, tasksLock, poisoned,
                   handle, is_running, threads, shutdownLog, dropped>>

\* scheduler.rs 108-111: lock, retain
unregister_retain ==
    /\ caller.pc = "unreg"
    /\ tasksLock = 0
    /\ IF poisoned
       THEN /\ caller' = [caller EXCEPT !.pc = "ret", !.result = "panic"]
            /\ tasks' = tasks
       ELSE /\ caller' = [caller EXCEPT !.pc = "ret", !.result = "Ok"]
            /\ tasks' = SelectSeq(tasks, LAMBDA x : x /= caller.task)
    /\ UNCHANGED <<clock, last_run, on_shutdown, tasksLock, poisoned, handle,
                   is_running, gil, threads, shutdownLog, dropped>>

\* start() without the test of the handle
start_always ==
    /\ CanCall /\ ~dropped
    /\ gil' = Caller
    /\ \E i \in ThreadIds :
          /\ i = FirstFree
          /\ is_running' = TRUE
          /\ threads' = [threads EXCEPT ![i] = [ThreadNone EXCEPT
                                                   !.pc = "while"]]
          /\ handle' = i
          /\ caller' = [CallerIdle EXCEPT !.pc = "ret", !.op = "start",
                           !.result = "Ok"]
    /\ UNCHANGED <<clock, last_run, on_shutdown, tasks, tasksLock, poisoned,
                   shutdownLog, dropped>>

\* scheduler.rs 127-161: start; the thread spawned takes the first free id
start ==
    /\ CanCall /\ ~dropped
    /\ gil' = Caller
    /\ IF handle /= 0
       THEN /\ caller' = [CallerIdle EXCEPT !.pc = "ret", !.op = "start",
                             !.early = TRUE, !.result = "Ok"]
            /\ UNCHANGED <<is_running, threads, handle>>
       ELSE \E i \in ThreadIds :
               /\ i = FirstFree
               /\ is_running' = TRUE
               /\ threads' = [threads EXCEPT ![i] = [ThreadNone EXCEPT
                                                        !.pc = "while"]]
               /\ handle' = i
               /\ caller' = [CallerIdle EXCEPT !.pc = "ret", !.op = "start",
                                !.result = "Ok"]
    /\ UNCHANGED <<clock, last_run, on_shutdown, tasks, tasksLock, poisoned,
                   shutdownLog, dropped>>

\* scheduler.rs 163-170: stop up to the join
stop ==
    /\ CanCall /\ ~dropped
    /\ gil' = Caller
    /\ IF handle = 0
       THEN /\ caller' = [CallerIdle EXCEPT !.pc = "ret", !.op = "stop",
                             !.early = TRUE, !.result = "Ok"]
            /\ UNCHANGED <<is_running, handle>>
       ELSE /\ is_running' = FALSE
            /\ handle' = 0
            /\ caller' = [CallerIdle EXCEPT !.pc = "stop_join",
                             !.op = "stop", !.join = handle]
    /\ UNCHANGED <<clock, last_run, on_shutdown, tasks, tasksLock, poisoned,
                   threads, shutdownLog, dropped>>

\* stop() that does not wait for the loop thread
stop_join_nowait ==
    /\ caller.pc = "stop_join"
    /\ tasksLock = 0
    /\ IF poisoned
       THEN /\ caller' = [caller EXCEPT !.pc = "ret", !.result = "panic"]
            /\ UNCHANGED <<tasksLock, shutdownLog>>
       ELSE /\ caller' = [caller EXCEPT !.pc = "stop_hooks", !.idx = 1]
            /\ tasksLock' = Caller
            /\ shutdownLog' = <<>>
    /\ UNCHANGED <<clock, last_run, on_shutdown, tasks, poisoned, handle,
                   is_running, gil, threads, dropped>>

\* scheduler.rs 171-173: handle.unwrap().join().ok(), which returns when the
\* thread has ended, whether it returned or panicked; then
\* self.tasks.lock().unwrap()
stop_join ==
    /\ caller.pc = "stop_join"
    /\ Gone(caller.join)
    /\ tasksLock = 0
    /\ IF poisoned
       THEN /\ caller' = [caller EXCEPT !.pc = "ret", !.result = "panic"]
            /\ UNCHANGED <<tasksLock, shutdownLog>>
       ELSE /\ caller' = [caller EXCEPT !.pc = "stop_hooks", !.idx = 1]
            /\ tasksLock' = Caller
            /\ shutdownLog' = <<>>
    /\ UNCHANGED <<clock, last_run, on_shutdown, tasks, poisoned, handle,
                   is_running, gil, threads, dropped>>

\* scheduler.rs 60-66: TaskPy::shutdown calls the hook when there is one
shutdown(log, t) == IF on_shutdown[t] THEN Append(log, t) ELSE log

\* scheduler.rs 173-176: one iteration of the loop over the tasks
stop_shutdown ==
    /\ caller.pc = "stop_hooks"
    /\ caller.idx <= Len(tasks)
    /\ shutdownLog' = shutdown(shutdownLog, tasks[caller.idx])
    /\ caller' = [caller EXCEPT !.idx = @ + 1]
    /\ UNCHANGED <<clock, last_run, on_shutdown, tasks, tasksLock, poisoned,
                   handle, is_running, gil, threads, dropped>>

\* scheduler.rs 176-177: the guard is dropped, Ok(())
stop_end ==
    /\ caller.pc = "stop_hooks"
    /\ caller.idx > Len(tasks)
    /\ tasksLock' = 0
    /\ caller' = [caller EXCEPT !.pc = "ret", !.result = "Ok"]
    /\ UNCHANGED <<clock, last_run, on_shutdown, tasks, poisoned, handle,
                   is_running, gil, threads, shutdownLog, dropped>>

\* scheduler.rs 182-191: drop up to the join; the object is deallocated by
\* the thread that holds the GIL
drop ==
    /\ CanCall /\ ~dropped
    /\ dropped' = TRUE
    /\ gil' = Caller
    /\ IF handle = 0
       THEN /\ caller' = [CallerIdle EXCEPT !.pc = "ret", !.op = "drop",
                             !.early = TRUE, !.result = "Ok"]
            /\ UNCHANGED <<is_running, handle>>
       ELSE /\ is_running' = FALSE
            /\ handle' = 0
            /\ caller' = [CallerIdle EXCEPT !.pc = "drop_join",
                             !.op = "drop", !.join = handle]
    /\ UNCHANGED <<clock, last_run, on_shutdown, tasks, tasksLock, poisoned,
                   threads, shutdownLog>>

\* drop that does not join the loop thread
drop_join_nowait ==
    /\ caller.pc = "drop_join"
    /\ caller' = [caller EXCEPT !.pc = "ret", !.result = "Ok"]
    /\ UNCHANGED <<clock, last_run, on_shutdown, tasks, tasksLock, poisoned,
                   handle, is_running, gil, threads, shutdownLog, dropped>>

\* scheduler.rs 192: handle.unwrap().join().ok()
drop_join ==
    /\ caller.pc = "drop_join"
    /\ Gone(caller.join)
    /\ caller' = [caller EXCEPT !.pc = "ret", !.result = "Ok"]
    /\ UNCHANGED <<clock, last_run, on_shutdown, tasks, tasksLock, poisoned,
                   handle, is_running, gil, threads, shutdownLog, dropped>>

\* the call returns to Python, which may release the GIL
call_return ==
    /\ caller.pc = "ret"
    /\ caller' = CallerIdle
    /\ gil' = 0
    /\ UNCHANGED <<clock, last_run, on_shutdown, tasks, tasksLock, poisoned,
                   handle, is_running, threads, shutdownLog, dropped>>

(***************************************************************************)
(* The loop thread (scheduler.rs 136-159)                                  *)
(***************************************************************************)
\* scheduler.rs 137: while is_running.load(Ordering::SeqCst)
loop_while(i) ==
    /\ threads[i].pc = "while"
    /\ threads' = [threads EXCEPT
                      ![i].pc = IF is_running THEN "signals" ELSE "exited",
                      ![i].now = 0]
    /\ UNCHANGED <<clock, last_run, on_shutdown, tasks, tasksLock, poisoned,
                   handle, is_running, gil, caller, shutdownLog, dropped>>

\* scheduler.rs 138-146: Python::with_gil takes the GIL, check_signals
\* answers Ok or Err, the GIL is released, and now_millis() is read
loop_signals(i, interrupted) ==
    /\ threads[i].pc = "signals"
    /\ gil = 0
    /\ is_running' = IF interrupted THEN FALSE ELSE is_running
    /\ threads' = [threads EXCEPT ![i].pc = "lock", ![i].now = clock]
    /\ UNCHANGED <<clock, last_run, on_shutdown, tasks, tasksLock, poisoned,
                   handle, gil, caller, shutdownLog, dropped>>

\* scheduler.rs 147: tasks.lock().unwrap()
loop_lock(i) ==
    /\ threads[i].pc = "lock"
    /\ tasksLock = 0
    /\ IF poisoned
       THEN /\ threads' = [threads EXCEPT ![i] = [ThreadNone EXCEPT
                                                     !.pc = "panicked"]]
            /\ tasksLock' = tasksLock
       ELSE /\ threads' = [threads EXCEPT ![i].pc = "iter", ![i].idx = 1]
            /\ tasksLock' = i
    /\ UNCHANGED <<clock, last_run, on_shutdown, tasks, poisoned, handle,
                   is_running, gil, caller, shutdownLog, dropped>>

\* scheduler.rs 147-150: the next task, or the end of the list, or the break
\* when is_running is false; the guard is dropped when the for ends
loop_iter(i) ==
    /\ threads[i].pc = "iter"
    /\ IF threads[i].idx <= Len(tasks) /\ is_running
       THEN /\ threads' = [threads EXCEPT ![i].pc = "run_gil"]
            /\ tasksLock' = tasksLock
       ELSE /\ threads' = [threads EXCEPT ![i] = [ThreadNone EXCEPT
                                                     !.pc = "sleep"]]
            /\ tasksLock' = 0
    /\ UNCHANGED <<clock, last_run, on_shutdown, tasks, poisoned, handle,
                   is_running, gil, caller, shutdownLog, dropped>>

\* scheduler.rs 51: now - self.last_run >= interval_ms, in u128. When now is
\* less than last_run the subtraction overflows: the difference wraps to
\* more than any interval of this model, or, with overflow checks, the
\* thread panics.
RunOutcomes(now, last, ivl) ==
    IF now < last THEN {"due", "panic"}
    ELSE IF now - last >= ivl THEN {"due"} ELSE {"skip"}

\* the run of a task without Python::with_gil
loop_run_nogil(i) ==
    /\ threads[i].pc = "run_gil"
    /\ threads' = [threads EXCEPT ![i].pc = "body"]
    /\ UNCHANGED <<clock, last_run, on_shutdown, tasks, tasksLock, poisoned,
                   handle, is_running, gil, caller, shutdownLog, dropped>>

\* scheduler.rs 151-153 and 48-51: Python::with_gil takes the GIL and
\* TaskPy::run decides whether the target is called
loop_run(i) ==
    /\ threads[i].pc = "run_gil"
    /\ gil = 0
    /\ LET t == tasks[threads[i].idx]
       IN \E o \in RunOutcomes(threads[i].now, last_run[t], interval_ms(t)) :
             \/ /\ o = "due"
                /\ gil' = i
                /\ threads' = [threads EXCEPT ![i].pc = "body"]
                /\ UNCHANGED <<tasksLock, poisoned>>
             \/ /\ o = "skip"
                /\ threads' = [threads EXCEPT ![i].pc = "iter",
                                              ![i].idx = @ + 1]
                /\ UNCHANGED <<gil, tasksLock, poisoned>>
             \/ /\ o = "panic"
                /\ threads' = [threads EXCEPT ![i] = [ThreadNone EXCEPT
                                                         !.pc = "panicked"]]
                /\ tasksLock' = 0
                /\ poisoned' = TRUE
                /\ gil' = gil
    /\ UNCHANGED <<clock, last_run, on_shutdown, tasks, handle, is_running,
                   caller, shutdownLog, dropped>>

\* scheduler.rs 53: the target is Python code; the interpreter may hand the
\* GIL to another thread while it runs ...
loop_body_yield(i) ==
    /\ threads[i].pc = "body"
    /\ gil = i
    /\ gil' = 0
    /\ threads' = [threads EXCEPT ![i].pc = "body_yield"]
    /\ UNCHANGED <<clock, last_run, on_shutdown, tasks, tasksLock, poisoned,
                   handle, is_running, caller, shutdownLog, dropped>>

\* ... and the target goes on when the thread has the GIL again
loop_body_resume(i) ==
    /\ threads[i].pc = "body_yield"
    /\ gil = 0
    /\ gil' = i
    /\ threads' = [threads EXCEPT ![i].pc = "body"]
    /\ UNCHANGED <<clock, last_run, on_shutdown, tasks, tasksLock, poisoned,
                   handle, is_running, caller, shutdownLog, dropped>>

\* scheduler.rs 53-54 and 154: the target has returned or raised (the
\* result is discarded), last_run = now, the GIL is released
loop_body_end(i) ==
    /\ threads[i].pc = "body"
    /\ gil = i
    /\ gil' = 0
    /\ last_run' = [last_run EXCEPT ![tasks[threads[i].idx]] = threads[i].now]
    /\ threads' = [threads EXCEPT ![i].pc = "iter", ![i].idx = @ + 1]
    /\ UNCHANGED <<clock, on_shutdown, tasks, tasksLock, poisoned, handle,
                   is_running, caller, shutdownLog, dropped>>

\* scheduler.rs 157: thread::sleep(100 ms)
loop_sleep(i) ==
    /\ threads[i].pc = "sleep"
    /\ threads' = [threads EXCEPT ![i].pc = "while"]
    /\ UNCHANGED <<clock, last_run, on_shutdown, tasks, tasksLock, poisoned,
                   handle, is_running, gil, caller, shutdownLog, dropped>>

LoopStep(i) ==
    \/ loop_while(i)
    \/ \E interrupted \in BOOLEAN : loop_signals(i, interrupted)
    \/ loop_lock(i)
    \/ loop_iter(i)
    \/ loop_run(i)
    \/ loop_body_yield(i)
    \/ loop_body_resume(i)
    \/ loop_body_end(i)
    \/ loop_sleep(i)

(***************************************************************************)
(* Properties of the scheduler                                             *)
(***************************************************************************)
\* the tasks of a list that have a shutdown hook, in list order
WithHook(ts) == SelectSeq(ts, LAMBDA t : on_shutdown[t])
StopReturned ==
    caller.op = "stop" /\ caller.pc = "ret" /\ ~caller.early
       /\ caller.result = "Ok"

\* C1: while stop() invokes the shutdown hooks and when it returns, the loop
\* thread it joined has ended and no loop thread is alive (so no task body
\* starts after the first hook); the hooks invoked so far are those of the
\* tasks passed so far, once each, in registration order, and at the return
\* those of every registered task.
C1_StopJoinsThenShutsDown ==
    /\ (caller.pc = "stop_hooks" \/ StopReturned) =>
          /\ Gone(caller.join)
          /\ Live = {}
          /\ NoDup(tasks)
          /\ shutdownLog = WithHook(SubSeq(tasks, 1, caller.idx - 1))
    /\ StopReturned => shutdownLog = WithHook(tasks)

\* stop() has returned after the loop thread it joined left its closure:
\* both registered tasks have a hook, and the hooks ran in registration order
C1_Witness ==
    /\ StopReturned
    /\ Len(tasks) = 2
    /\ shutdownLog = tasks
    /\ threads[caller.join].pc = "exited"

\* C2: every stop() that has reached the join returns: under the fairness
\* of SpecSchedLive the loop thread sees is_running = FALSE and ends, and
\* stop() goes on to its return.
C2_StopTerminates ==
    (caller.op = "stop" /\ caller.pc = "stop_join")
       ~> (caller.op = "stop" /\ caller.pc = "ret")

\* the state the loop thread and stop() are left in when stop() does not
\* return: stop() waits in join with the GIL, the loop thread waits for the
\* GIL
StopDeadlocked ==
    /\ caller.pc = "stop_join"
    /\ gil = Caller
    /\ threads[caller.join].pc \in {"signals", "run_gil", "body_yield"}

\* C9: while the scheduler is dropped no shutdown hook is invoked and the
\* task list is left alone; when drop returns no loop thread is alive,
\* is_running is false and the handle is gone; a drop with no handle returns
\* at once and changes nothing.
C9_DropJoinsWithoutHooks ==
    /\ []((caller.op = "drop" /\ caller.pc = "ret") =>
             /\ Live = {}
             /\ ~is_running
             /\ handle = 0)
    /\ [][(caller.op = "drop" \/ caller'.op = "drop") =>
             /\ shutdownLog' = shutdownLog
             /\ tasks' = tasks
             /\ caller'.pc \notin {"stop_hooks", "stop_join"}]_vars
    /\ [][(caller.pc = "idle" /\ caller'.op = "drop" /\ handle = 0) =>
             /\ caller'.pc = "ret"
             /\ UNCHANGED <<is_running, handle, threads, tasks, tasksLock,
                            shutdownLog>>]_vars

\* a running scheduler with a registered task that has a hook was dropped:
\* drop has returned after the join, the thread has ended, no hook was
\* invoked
C9_Witness ==
    /\ caller.op = "drop" /\ caller.pc = "ret" /\ ~caller.early
    /\ Gone(caller.join)
    /\ \E i \in DOMAIN tasks : on_shutdown[tasks[i]]
    /\ shutdownLog = <<>>

\* C10: at most one loop thread is alive; start() with a handle spawns
\* nothing; stop() with no handle returns at once, without a join or a
\* hook; neither fails.
C10_LifecycleMisuseIsNoop ==
    /\ [](Cardinality(Live) <= 1)
    /\ [][(caller.pc = "idle" /\ caller'.op = "start" /\ handle /= 0) =>
             /\ caller'.pc = "ret" /\ caller'.result = "Ok"
             /\ UNCHANGED <<is_running, handle, threads, tasks, tasksLock,
                            shutdownLog>>]_vars
    /\ [][(caller.pc = "idle" /\ caller'.op = "stop" /\ handle = 0) =>
             /\ caller'.pc = "ret" /\ caller'.result = "Ok"
             /\ UNCHANGED <<is_running, handle, threads, tasks, tasksLock,
                            shutdownLog>>]_vars

\* a second stop() after a stop() that ran a hook has returned at once,
\* having joined nothing
C10_Witness ==
    /\ caller.op = "stop" /\ caller.pc = "ret" /\ caller.early
    /\ caller.join = 0
    /\ shutdownLog /= <<>>
    /\ Spawned /= {}

\* start() on a running scheduler has returned at once
C10_WitnessStart ==
    /\ caller.op = "start" /\ caller.pc = "ret" /\ caller.early
    /\ Cardinality(Live) = 1

\* the calls that change the task list
ListOps == {"register_task", "schedule", "unregister_task"}

C11_Inv ==
    /\ NoDup(tasks)
    /\ caller.op \in ListOps => caller.result /= "panic"
    /\ (caller.pc = "ret" /\ caller.op \in {"register_task", "schedule"})
          => caller.task \in Range(tasks)
    /\ (caller.pc = "ret" /\ caller.op = "unregister_task")
          => caller.task \notin Range(tasks)

\* C11: whatever the loop thread does meanwhile, no task is twice in the
\* list, a register_task or schedule that has returned leaves its task in
\* the list and an unregister_task out of it, the list changes at no other
\* step, and none of the three calls panics.
C11_TaskListWellFormed ==
    /\ []C11_Inv
    /\ [][tasks' /= tasks =>
             /\ caller.op \in ListOps
             /\ caller'.pc = "ret"
             /\ tasks' \in {Append(tasks, caller.task),
                            SelectSeq(tasks, LAMBDA x : x /= caller.task)}]_vars

\* a call that changes the task list has ended in a panic: lock().unwrap()
\* on the mutex that the loop thread poisoned
C11_Witness ==
    /\ caller.op \in ListOps
    /\ caller.pc = "ret"
    /\ caller.result = "panic"
    /\ poisoned

\* the part of C11 that holds: the well-formed list, with the panic of a
\* poisoned mutex left out
C11_ListPart ==
    /\ NoDup(tasks)
    /\ (/\ caller.pc = "ret"
        /\ caller.result = "Ok"
        /\ caller.op \in {"register_task", "schedule"})
          => caller.task \in Range(tasks)
    /\ (/\ caller.pc = "ret"
        /\ caller.result = "Ok"
        /\ caller.op = "unregister_task")
          => caller.task \notin Range(tasks)

\* the loop threads that are inside the body of a task
InBody == {i \in ThreadIds : threads[i].pc \in {"body", "body_yield"}}

\* C13: whenever the loop runs the body of a task, the snapshot time of the
\* tick is at least the interval after the task's last_run, which is the
\* snapshot time of its previous run or, before the first run, the time of
\* its construction.
C13_OncePerInterval ==
    \A i \in InBody :
       LET t == tasks[threads[i].idx]
       IN threads[i].now >= last_run[t] + interval_ms(t)

\* the loop runs the body of a task at a snapshot time that is before the
\* time the task was constructed
C13_Witness ==
    \E i \in InBody : threads[i].now < last_run[tasks[threads[i].idx]]

\* C14: whatever happens inside the run of a task, the loop goes on to the
\* next task of the tick, and a loop thread ends only at a step that finds
\* is_running false.
C14_LoopSurvivesTaskFailure ==
    [][\A i \in ThreadIds :
          /\ (threads[i].pc \in {"run_gil", "body"}
                 /\ threads'[i].pc /= threads[i].pc)
                => \/ threads'[i].pc \in {"body", "body_yield"}
                   \/ /\ threads'[i].pc = "iter"
                      /\ threads'[i].idx = threads[i].idx + 1
          /\ (~Gone(i) /\ threads'[i].pc \in {"exited", "panicked"})
                => ~is_running]_vars

\* the run of a task has ended the loop thread of a scheduler that was not
\* stopped: is_running is true and the handle names the dead thread
C14_Witness ==
    \E i \in ThreadIds :
       /\ threads[i].pc = "panicked"
       /\ handle = i
       /\ is_running

\* C18: Task.run(now) invokes the body exactly when now - last_run is at
\* least interval_ms, and then sets last_run to now; otherwise it does
\* nothing. This holds for every now and last_run, now < last_run included:
\* the subtraction neither fails nor wraps into a due result.
C18_RunExactlyWhenDue ==
    [][\A i \in ThreadIds :
          /\ threads[i].pc = "run_gil" /\ threads'[i] /= threads[i] =>
                LET t == tasks[threads[i].idx]
                    now == threads[i].now
                IN  IF now >= last_run[t] /\ now - last_run[t] >= interval_ms(t)
                      THEN threads'[i].pc = "body"
                      ELSE /\ threads'[i].pc = "iter"
                           /\ last_run' = last_run
          /\ threads[i].pc = "body" /\ threads'[i].pc = "iter" =>
                last_run'[tasks[threads[i].idx]] = threads[i].now]_vars

\* run is about to be called with a now that is less than last_run
C18_Witness ==
    \E i \in ThreadIds :
        /\ threads[i].pc = "run_gil"
        /\ threads[i].now < last_run[tasks[threads[i].idx]]

\* C19: start() is a no-op only when the scheduler is already running; called
\* with the running flag false it spawns the loop, also after the loop has
\* stopped itself on a signal. In every state the scheduler holds a loop
\* handle only if running is true or a stop() or a drop is in progress.
C19_StartSpawnsUnlessRunning ==
    /\ [](handle /= 0 =>
             is_running \/ caller.pc \in {"stop_join", "drop_join"})
    /\ [][caller.pc = "idle" /\ caller'.pc = "ret" /\ caller'.op = "start" =>
             IF is_running
               THEN caller'.early
               ELSE /\ ~caller'.early
                    /\ handle' \in Live'
                    /\ is_running']_vars

\* the loop has stopped itself on a signal, and a start() called after that
\* has returned without spawning
C19_Witness ==
    /\ ~is_running
    /\ handle /= 0
    /\ threads[handle].pc = "exited"
    /\ caller.pc = "ret" /\ caller.op = "start" /\ caller.early

\* a call of register_task, unregister_task or schedule that is waiting for
\* the tasks mutex
ListWait == caller.pc \in {"reg_find", "reg_push", "unreg"}

\* C20: register_task, unregister_task and schedule always complete while
\* the loop is running: the loop never holds the tasks mutex while it invokes
\* a body or waits for the GIL, so a call that waits for the mutex can
\* proceed, or the loop can take the step that frees it.
C20_ListOpsComplete ==
    /\ \A i \in ThreadIds :
          threads[i].pc \in {"run_gil", "body", "body_yield"} =>
              tasksLock /= i
    /\ ListWait =>
          ENABLED (\/ register_find \/ register_push \/ unregister_retain
                   \/ \E i \in ThreadIds : LoopStep(i))

\* the host thread holds the GIL and waits for the tasks mutex, which the
\* loop thread holds while it waits for the GIL
C20_Witness ==
    \E i \in ThreadIds :
        /\ ListWait
        /\ gil = Caller
        /\ tasksLock = i
        /\ threads[i].pc = "run_gil"

NextSched ==
    \/ Tick /\ UNCHANGED <<busVars, hubVars>>
    \/ \E t \in TaskIds, hook \in BOOLEAN :
          TaskNew(t, hook) /\ UNCHANGED <<busVars, hubVars>>
    \/ \E t \in TaskIds : register_task(t) /\ UNCHANGED <<busVars, hubVars>>
    \/ \E t \in TaskIds, hook \in BOOLEAN :
          schedule(t, hook) /\ UNCHANGED <<busVars, hubVars>>
    \/ register_find /\ UNCHANGED <<busVars, hubVars>>
    \/ register_push /\ UNCHANGED <<busVars, hubVars>>
    \/ \E t \in TaskIds : unregister_task(t) /\ UNCHANGED <<busVars, hubVars>>
    \/ unregister_retain /\ UNCHANGED <<busVars, hubVars>>
    \/ start /\ UNCHANGED <<busVars, hubVars>>
    \/ stop /\ UNCHANGED <<busVars, hubVars>>
    \/ stop_join /\ UNCHANGED <<busVars, hubVars>>
    \/ stop_shutdown /\ UNCHANGED <<busVars, hubVars>>
    \/ stop_end /\ UNCHANGED <<busVars, hubVars>>
    \/ drop /\ UNCHANGED <<busVars, hubVars>>
    \/ drop_join /\ UNCHANGED <<busVars, hubVars>>
    \/ call_return /\ UNCHANGED <<busVars, hubVars>>
    \/ \E i \in ThreadIds : loop_while(i) /\ UNCHANGED <<busVars, hubVars>>
    \/ \E i \in ThreadIds, interrupted \in BOOLEAN :
          loop_signals(i, interrupted) /\ UNCHANGED <<busVars, hubVars>>
    \/ \E i \in ThreadIds : loop_lock(i) /\ UNCHANGED <<busVars, hubVars>>
    \/ \E i \in ThreadIds : loop_iter(i) /\ UNCHANGED <<busVars, hubVars>>
    \/ \E i \in ThreadIds : loop_run(i) /\ UNCHANGED <<busVars, hubVars>>
    \/ \E i \in ThreadIds : loop_body_yield(i) /\ UNCHANGED <<busVars, hubVars>>
    \/ \E i \in ThreadIds : loop_body_resume(i) /\ UNCHANGED <<busVars, hubVars>>
    \/ \E i \in ThreadIds : loop_body_end(i) /\ UNCHANGED <<busVars, hubVars>>
    \/ \E i \in ThreadIds : loop_sleep(i) /\ UNCHANGED <<busVars, hubVars>>

(***************************************************************************)
(* Specifications                                                          *)
(***************************************************************************)
InitBus == BusInit /\ raises \in SUBSET Fns /\ SchedInit /\ HubInit
InitSched == BusInit /\ raises = {} /\ SchedInit /\ HubInit

SpecBus == InitBus /\ [][NextBus]_vars
SpecSched == InitSched /\ [][NextSched]_vars
SpecHub == InitBus /\ [][NextHub]_vars

(***************************************************************************)
(* The bus and the scheduler under the one GIL                             *)
(***************************************************************************)
\* the Python thread that calls dispatch
Dispatcher == MaxThreads + 2

schedNoGil == <<clock, last_run, on_shutdown, tasks, tasksLock, poisoned,
                handle, is_running, threads, caller, shutdownLog, dropped>>

\* message_bus.rs 67 and 83-84: dispatch and dispatch_with_results take
\* py: Python<'_>, the proof that the calling thread holds the GIL
gate_dispatch(event_id, collecting) ==
    /\ gil = 0
    /\ dispatch_enter(event_id, collecting)
    /\ gil' = Dispatcher
    /\ UNCHANGED <<schedNoGil, hubVars>>

\* message_bus.rs 68-77 and 92-110: the listeners are called with that py
gate_listeners ==
    /\ gil = Dispatcher
    /\ \/ dispatch_named_call
       \/ dispatch_named_end
       \/ dispatch_global_lock
       \/ dispatch_global_call
       \/ dispatch_global_end
    /\ UNCHANGED <<schedVars, hubVars>>

\* a listener body is Python code: the interpreter may hand the GIL to
\* another thread while it runs ...
gate_listener_yield ==
    /\ gil = Dispatcher
    /\ \/ disp.pc = "named" /\ disp.idx <= Len(EVENT_LISTENERS[disp.event])
       \/ disp.pc = "global" /\ disp.idx <= Len(GLOBAL_LISTENERS)
    /\ gil' = 0
    /\ UNCHANGED <<busVars, schedNoGil, hubVars>>

\* ... and the body goes on when the thread has the GIL again
gate_listener_resume ==
    /\ gil = 0
    /\ disp.pc \in {"named", "global"}
    /\ gil' = Dispatcher
    /\ UNCHANGED <<busVars, schedNoGil, hubVars>>

\* message_bus.rs 79 and 112: the call returns to Python, which may release
\* the GIL
gate_return ==
    /\ gil = Dispatcher
    /\ dispatch_return
    /\ gil' = 0
    /\ UNCHANGED <<schedNoGil, hubVars>>

\* the callables that are running: a task body on a loop thread that has
\* the GIL or has handed it over, a shutdown hook inside stop(), a listener
\* inside a dispatch
TaskBodies == {i \in ThreadIds : threads[i].pc = "body"}
HookRuns == caller.pc = "stop_hooks" /\ caller.idx <= Len(tasks)
ListenerRuns ==
    /\ disp.pc \in {"named", "global"}
    /\ gil = Dispatcher
Running ==
    Cardinality(TaskBodies) + (IF HookRuns THEN 1 ELSE 0)
       + (IF ListenerRuns THEN 1 ELSE 0)

\* C15: a task body runs on a loop thread that holds the GIL, a shutdown
\* hook in a stop() that holds it, a listener is called by a dispatch that
\* holds it, so at most one of them runs at a time; a thread that has ended,
\* a call that has returned and a dispatch that is over do not hold it.
C15_OneCallableAtATime ==
    /\ [](/\ \A i \in TaskBodies : gil = i
          /\ HookRuns => gil = Caller
          /\ Running <= 1
          /\ \A i \in ThreadIds :
                (threads[i].pc = "none" \/ Gone(i)) => gil /= i
          /\ caller.pc = "idle" => gil /= Caller
          /\ disp.pc = "idle" => gil /= Dispatcher)
    /\ [][/\ Len(disp'.calls) > Len(disp.calls)
             => gil = Dispatcher /\ gil' = Dispatcher
          /\ Len(shutdownLog') > Len(shutdownLog)
             => gil = Caller /\ gil' = Caller]_vars

\* a listener of a dispatch has handed the GIL over in the middle of its
\* body, and the loop thread runs a task body with the GIL
C15_Witness ==
    /\ disp.pc = "named"
    /\ disp.calls /= <<>>
    /\ \E i \in TaskBodies : gil = i

\* a shutdown hook runs in stop(), which has called one before, while a
\* dispatch is suspended in a global listener that handed the GIL over
C15_WitnessHook ==
    /\ HookRuns
    /\ shutdownLog /= <<>>
    /\ disp.pc = "global"

NextGate ==
    \/ \E e \in Events, c \in BOOLEAN : gate_dispatch(e, c)
    \/ gate_listeners
    \/ gate_listener_yield
    \/ gate_listener_resume
    \/ gate_return
    \/ \E t \in TaskIds, hook \in BOOLEAN :
          schedule(t, hook) /\ UNCHANGED <<busVars, hubVars>>
    \/ register_find /\ UNCHANGED <<busVars, hubVars>>
    \/ register_push /\ UNCHANGED <<busVars, hubVars>>
    \/ start /\ UNCHANGED <<busVars, hubVars>>
    \/ stop /\ UNCHANGED <<busVars, hubVars>>
    \/ stop_join /\ UNCHANGED <<busVars, hubVars>>
    \/ stop_shutdown /\ UNCHANGED <<busVars, hubVars>>
    \/ stop_end /\ UNCHANGED <<busVars, hubVars>>
    \/ call_return /\ UNCHANGED <<busVars, hubVars>>
    \/ \E i \in ThreadIds : loop_while(i) /\ UNCHANGED <<busVars, hubVars>>
    \/ \E i \in ThreadIds, interrupted \in BOOLEAN :
          loop_signals(i, interrupted) /\ UNCHANGED <<busVars, hubVars>>
    \/ \E i \in ThreadIds : loop_lock(i) /\ UNCHANGED <<busVars, hubVars>>
    \/ \E i \in ThreadIds : loop_iter(i) /\ UNCHANGED <<busVars, hubVars>>
    \/ \E i \in ThreadIds : loop_run(i) /\ UNCHANGED <<busVars, hubVars>>
    \/ \E i \in ThreadIds : loop_body_yield(i) /\ UNCHANGED <<busVars, hubVars>>
    \/ \E i \in ThreadIds : loop_body_resume(i) /\ UNCHANGED <<busVars, hubVars>>
    \/ \E i \in ThreadIds : loop_body_end(i) /\ UNCHANGED <<busVars, hubVars>>
    \/ \E i \in ThreadIds : loop_sleep(i) /\ UNCHANGED <<busVars, hubVars>>

\* The bus after on(1, M), on(1, L) and on_all(M), beside a new scheduler
InitGate ==
    /\ EVENT_LISTENERS = (1 :> <<"L", "M">>)
    /\ GLOBAL_LISTENERS = <<"M">>
    /\ evLock = "free"
    /\ glLock = "free"
    /\ disp = DispIdle
    /\ registered = [e \in Events |-> IF e = 1 THEN <<"M", "L">> ELSE <<>>]
    /\ raises \in SUBSET Fns
    /\ SchedInit
    /\ HubInit

SpecGate == InitGate /\ [][NextGate]_vars

\* The operating system runs a thread that can take a step, a task body
\* that is resumed again and again returns, and a call that can go on does.
SchedFairness ==
    /\ \A i \in ThreadIds :
          /\ WF_vars(LoopStep(i) /\ UNCHANGED <<busVars, hubVars>>)
          /\ SF_vars(loop_body_end(i) /\ UNCHANGED <<busVars, hubVars>>)
    /\ WF_vars((stop_join \/ stop_shutdown \/ stop_end) /\ UNCHANGED <<busVars, hubVars>>)
SpecSchedLive == SpecSched /\ SchedFairness

=============================================================================
